---- MODULE Spec2Model ----
(***************************************************************************)
(* Model of BaseDetectorNode (armor_detector/src/base_detector_node.cpp).  *)
(*                                                                         *)
(* Three processes share the node object:                                  *)
(*   - the frame pipeline: detectArmors, statement by statement, followed  *)
(*     by the rest of the image callback (3D positions, publication of     *)
(*     the armors, publishMarkers);                                        *)
(*   - the "debug" parameter callback (lines 78-81);                       *)
(*   - the external parameter store, which may be written at any time.     *)
(*                                                                         *)
(* Ratios, distances and the classifier threshold are kept as integers     *)
(* scaled by 100; angles in degrees.                                       *)
(***************************************************************************)
EXTENDS Integers, Sequences, FiniteSets, TLC

(***************************************************************************)
(* Bounds of the model                                                     *)
(***************************************************************************)
MaxFrames == 2
MaxUpdates == 2
MaxDebugEvents == 2

(***************************************************************************)
(* Program constants                                                       *)
(***************************************************************************)
RED == 0
BLUE == 1
ResizeW == 20
ResizeH == 28

MarkerDELETE == "DELETE"
MarkerADD == "ADD"

ParamNames ==
  { "min_lightness", "detect_color", "classifier.threshold",
    "light.min_ratio", "light.max_ratio", "light.max_angle",
    "armor.min_light_ratio",
    "armor.min_small_center_distance", "armor.max_small_center_distance",
    "armor.min_large_center_distance", "armor.max_large_center_distance",
    "armor.max_angle" }

\* Default values handed to declare_parameter.
DefaultParams ==
  [ p \in ParamNames |->
      CASE p = "min_lightness" -> 160
        [] p = "detect_color" -> RED
        [] p = "classifier.threshold" -> 70
        [] p = "light.min_ratio" -> 10
        [] p = "light.max_ratio" -> 55
        [] p = "light.max_angle" -> 40
        [] p = "armor.min_light_ratio" -> 60
        [] p = "armor.min_small_center_distance" -> 80
        [] p = "armor.max_small_center_distance" -> 280
        [] p = "armor.min_large_center_distance" -> 320
        [] p = "armor.max_large_center_distance" -> 430
        [] p = "armor.max_angle" -> 35 ]

\* The other value each parameter may be set to by the external
\* configuration source (live tuning).
TunedParams ==
  [ p \in ParamNames |->
      CASE p = "min_lightness" -> 140
        [] p = "detect_color" -> BLUE
        [] p = "classifier.threshold" -> 90
        [] p = "light.min_ratio" -> 20
        [] p = "light.max_ratio" -> 40
        [] p = "light.max_angle" -> 20
        [] p = "armor.min_light_ratio" -> 90
        [] p = "armor.min_small_center_distance" -> 100
        [] p = "armor.max_small_center_distance" -> 250
        [] p = "armor.min_large_center_distance" -> 340
        [] p = "armor.max_large_center_distance" -> 400
        [] p = "armor.max_angle" -> 5 ]

\* The parameters the external configuration source writes at run time.
TunedNames ==
  { "min_lightness", "detect_color", "classifier.threshold",
    "light.max_ratio", "armor.max_angle" }

ParamValues(p) == { DefaultParams[p], TunedParams[p] }

\* Detector::LightParams / Detector::ArmorParams built from a parameter store.
LightParamsOf(ps) ==
  [ min_ratio |-> ps["light.min_ratio"],
    max_ratio |-> ps["light.max_ratio"],
    max_angle |-> ps["light.max_angle"] ]

ArmorParamsOf(ps) ==
  [ min_light_ratio |-> ps["armor.min_light_ratio"],
    min_small_center_distance |-> ps["armor.min_small_center_distance"],
    max_small_center_distance |-> ps["armor.max_small_center_distance"],
    min_large_center_distance |-> ps["armor.min_large_center_distance"],
    max_large_center_distance |-> ps["armor.max_large_center_distance"],
    max_angle |-> ps["armor.max_angle"] ]

\* initDetector: the Detector is constructed from the declared parameters.
initDetector(ps) ==
  [ min_lightness |-> ps["min_lightness"],
    detect_color |-> ps["detect_color"],
    l |-> LightParamsOf(ps),
    a |-> ArmorParamsOf(ps),
    debug_lights |-> << >>,
    debug_armors |-> << >> ]

(***************************************************************************)
(* Input frames.  A frame is the list of bright blobs of the colour image  *)
(* (in contour order).  A blob carries what the classifier network answers *)
(* for the numeral at its right (digit, prob).                             *)
(***************************************************************************)
BlobAt(cx, cy, lightness, color, ratio, angle, length, digit, prob) ==
  [ cx |-> cx, cy |-> cy, lightness |-> lightness, color |-> color,
    ratio |-> ratio, angle |-> angle, length |-> length,
    digit |-> digit, prob |-> prob ]

Blob(cx, lightness, color, ratio, angle, length, digit, prob) ==
  BlobAt(cx, 100, lightness, color, ratio, angle, length, digit, prob)

PairRed(digit, prob) ==
  << Blob(200, 200, RED, 30, 0, 50, "x", 0),
     Blob(100, 200, RED, 30, 0, 50, digit, prob) >>

Frame(blobs) == [ blobs |-> blobs ]

Frames ==
  { Frame(<< >>),
    Frame(<< Blob(100, 200, RED, 30, 0, 50, "3", 80) >>),
    Frame(PairRed("3", 80)),
    Frame(PairRed("negative", 95)),
    Frame(<< Blob(100, 200, RED, 30, 0, 50, "3", 80),
             Blob(250, 200, RED, 30, 0, 50, "x", 0) >>),
    Frame(<< BlobAt(100, 100, 200, RED, 30, 0, 50, "3", 80),
             BlobAt(100, 160, 200, RED, 30, 0, 50, "x", 0) >>),
    Frame(<< Blob(100, 150, BLUE, 50, 30, 50, "5", 95),
             Blob(200, 150, BLUE, 50, 30, 50, "x", 0) >>),
    Frame(<< Blob(400, 200, RED, 30, 0, 50, "1", 95),
             Blob(100, 200, RED, 30, 0, 50, "3", 60),
             Blob(575, 200, RED, 30, 0, 50, "x", 0),
             Blob(200, 200, RED, 30, 0, 50, "x", 0) >>) }

(***************************************************************************)
(* Sequence helpers                                                        *)
(***************************************************************************)
RECURSIVE SelectIdx(_, _, _)
SelectIdx(s, keep, i) ==
  IF i > Len(s) THEN << >>
  ELSE IF i \in keep THEN << s[i] >> \o SelectIdx(s, keep, i + 1)
       ELSE SelectIdx(s, keep, i + 1)

\* The lights ordered by horizontal position for matchLights; lights of
\* equal position keep their order.
RECURSIVE InsertByX(_, _)
InsertByX(x, s) ==
  IF s = << >> THEN << x >>
  ELSE IF Head(s).cx < x.cx THEN << Head(s) >> \o InsertByX(x, Tail(s))
       ELSE << x >> \o s

RECURSIVE SortByX(_)
SortByX(s) ==
  IF s = << >> THEN << >> ELSE InsertByX(Head(s), SortByX(Tail(s)))

Perms(n) ==
  { f \in [ 1..n -> 1..n ] : \A i, j \in 1..n : i # j => f[i] # f[j] }

\* std::sort with the comparator center_x < center_x (lines 147-152): every
\* arrangement of s in which no entry precedes one of smaller center_x.
\* The order of entries of equal center_x is unspecified.
SortsByX(s) ==
  { [ i \in 1..Len(s) |-> s[f[i]] ] :
      f \in { g \in Perms(Len(s)) :
                \A i \in 1..(Len(s) - 1) : ~(s[g[i + 1]].cx < s[g[i]].cx) } }

Abs(n) == IF n < 0 THEN 0 - n ELSE n
Min2(a, b) == IF a < b THEN a ELSE b
Max2(a, b) == IF a < b THEN b ELSE a

(***************************************************************************)
(* Detector stages (armor_detector/detector.cpp is not part of the         *)
(* sources; the stages follow sections 4.1 and 4.2 of the specification).  *)
(***************************************************************************)
\* Binarisation by brightness: the indices of the blobs that survive.
preprocessImage(img, min_lightness) ==
  { i \in 1..Len(img) : img[i].lightness > min_lightness }

isLight(b, l) ==
  /\ l.min_ratio <= b.ratio
  /\ b.ratio <= l.max_ratio
  /\ b.angle <= l.max_angle

findLights(img, binary_img, detect_color, l) ==
  SelectIdx(img,
            { i \in binary_img : isLight(img[i], l) /\ img[i].color = detect_color },
            1)

\* 0: not an armor, otherwise "SMALL" / "LARGE"
armorType(l1, l2, a) ==
  LET lo == Min2(l1.length, l2.length)
      hi == Max2(l1.length, l2.length)
      avg2 == l1.length + l2.length
      dist == (Abs(l1.cx - l2.cx) * 200) \div avg2
      ratio_ok == lo * 100 >= a.min_light_ratio * hi
      \* tilt of the line joining the centres, in degrees: the frames of
      \* this model only hold level (0) or stacked (90) pairs
      center_angle == IF l1.cy = l2.cy THEN 0 ELSE 90
      angle_ok == center_angle <= a.max_angle
  IN  IF ~(ratio_ok /\ angle_ok /\ l1.color = l2.color) THEN "NONE"
      ELSE IF a.min_small_center_distance <= dist /\ dist <= a.max_small_center_distance
             THEN "SMALL"
      ELSE IF a.min_large_center_distance <= dist /\ dist <= a.max_large_center_distance
             THEN "LARGE"
      ELSE "NONE"

Armor(l1, l2, type) ==
  [ left_light |-> l1, right_light |-> l2,
    cx |-> (l1.cx + l2.cx) \div 2, cy |-> (l1.cy + l2.cy) \div 2,
    armor_type |-> type,
    number_img |-> [ w |-> 0, h |-> 0, digit |-> "none" ],
    number |-> "none", confidence |-> 0, classfication_result |-> "" ]

\* Ordered scan: every light is paired with the first later unused light it
\* forms an armor with.
RECURSIVE matchFrom(_, _, _, _)
matchFrom(ls, i, used, a) ==
  IF i > Len(ls) THEN << >>
  ELSE IF i \in used THEN matchFrom(ls, i + 1, used, a)
  ELSE LET cand == { j \in (i + 1)..Len(ls) :
                       j \notin used /\ armorType(ls[i], ls[j], a) # "NONE" }
       IN  IF cand = {} THEN matchFrom(ls, i + 1, used, a)
           ELSE LET j == CHOOSE k \in cand : \A m \in cand : k <= m
                IN  << Armor(ls[i], ls[j], armorType(ls[i], ls[j], a)) >>
                      \o matchFrom(ls, i + 1, used \cup {i, j}, a)

matchLights(lights, a) == matchFrom(SortByX(lights), 1, {}, a)

(***************************************************************************)
(* NumberClassifier (armor_detector/number_classifier.cpp is not part of   *)
(* the sources; section 4.3 of the specification).                         *)
(***************************************************************************)
\* The numeral image of an armor has the one fixed size of numeral images,
\* 20 x 28 (the size line 162 names).
NumberSize == << ResizeW, ResizeH >>

extractOne(armor) ==
  [ armor EXCEPT !.number_img =
      [ w |-> NumberSize[1], h |-> NumberSize[2],
        digit |-> armor.left_light.digit ] ]

extractNumbers(armors) ==
  [ i \in 1..Len(armors) |-> extractOne(armors[i]) ]

classifyOne(armor, threshold) ==
  LET p == armor.left_light.prob
      label == IF p < threshold THEN "unknown" ELSE armor.number_img.digit
  IN  [ armor EXCEPT !.number = label, !.confidence = p,
                     !.classfication_result = label ]

doClassify(armors, threshold) ==
  LET all == [ i \in 1..Len(armors) |-> classifyOne(armors[i], threshold) ]
  IN  SelectIdx(all, { i \in 1..Len(all) : all[i].number # "negative" }, 1)

\* The entry of armors_msg_.armors for one armor.
armorMsg(armor) ==
  [ number |-> armor.number, confidence |-> armor.confidence,
    cx |-> armor.cx, cy |-> armor.cy, armor_type |-> armor.armor_type ]

(***************************************************************************)
(* State                                                                   *)
(***************************************************************************)
VARIABLES
  params,          \* the node's parameter store (external configuration)
  paramHist,       \* every value the store has held since the frame started
  nUpdates,        \* number of external parameter writes so far
  detector,        \* detector_ : min_lightness, detect_color, l, a, debug data
  threshold,       \* classifier_->threshold
  debug_,          \* debug_
  pubs,            \* which debug publishers exist / are valid
  cbpc,            \* position of the "debug" parameter callback
  cbP,             \* the value the callback was invoked with
  cbIdx,           \* next publisher createDebugPublishers/destroy... handles
  nDebugEvents,    \* number of "debug" parameter events so far
  pc,              \* position of the frame pipeline
  frame,           \* the frame being processed
  nFrames,         \* number of frames started so far
  binary_img, lights, armors,   \* locals of detectArmors
  result,          \* the value detectArmors returned
  armorsPre,       \* armors as they are when line 136 is reached
  used,            \* the configuration values the stages consumed
  startParams,     \* the parameter store when detectArmors started
  stageLog,        \* the stages run for this frame, in order
  pubLog,          \* the topics published for this frame, in order
  badPublish,      \* publishers this frame used while they did not exist
  failure,         \* "none", or why the process died
  armors_msg_,     \* armors_msg_.armors
  marker_array_,   \* marker_array_.markers
  position_marker_, \* position_marker_
  markersOut       \* the marker array last handed to marker_pub_

cfgVars == << params, paramHist, nUpdates >>
detVars == << detector, threshold >>
dbgVars == << debug_, pubs, cbpc, cbP, cbIdx, nDebugEvents >>
frameVars == << frame, nFrames, binary_img, lights, armors, result >>
ghostVars == << armorsPre, used, startParams, stageLog >>
pubVars == << pubLog, badPublish, failure >>
tailVars == << armors_msg_, marker_array_, position_marker_, markersOut >>

vars == << cfgVars, detVars, dbgVars, pc, frameVars, ghostVars, pubVars, tailVars >>

\* createDebugPublishers / destroyDebugPublishers handle the publishers in
\* this order.
PubOrder == << "/debug/lights", "/debug/armors", "/number", "/binary_img", "/final_img" >>
PubNames == { PubOrder[i] : i \in 1..Len(PubOrder) }
\* rclcpp publishers held by shared_ptr (the other two are image_transport
\* publishers held by value).
PtrPubs == { "/debug/lights", "/debug/armors", "/number" }

UsedOf(d, t) ==
  [ min_lightness |-> d.min_lightness, detect_color |-> d.detect_color,
    l |-> d.l, a |-> d.a, threshold |-> t ]

(***************************************************************************)
(* Construction (lines 26-82)                                              *)
(***************************************************************************)
Init ==
  /\ params = DefaultParams
  /\ paramHist = << DefaultParams >>
  /\ nUpdates = 0
  /\ detector = initDetector(DefaultParams)
  /\ threshold = DefaultParams["classifier.threshold"]
  /\ debug_ \in BOOLEAN
  /\ pubs = [ x \in PubNames |-> debug_ ]
  /\ cbpc = "idle"
  /\ cbP = FALSE
  /\ cbIdx = 1
  /\ nDebugEvents = 0
  /\ pc = "idle"
  /\ frame = Frame(<< >>)
  /\ nFrames = 0
  /\ binary_img = {}
  /\ lights = << >>
  /\ armors = << >>
  /\ result = << >>
  /\ armorsPre = << >>
  /\ used = UsedOf(detector, threshold)
  /\ startParams = params
  /\ stageLog = << >>
  /\ pubLog = << >>
  /\ badPublish = {}
  /\ failure = "none"
  /\ armors_msg_ = << >>
  /\ marker_array_ = << >>
  /\ position_marker_ = [ ns |-> "armors", action |-> MarkerADD ]
  /\ markersOut = << >>

Alive == failure = "none"

(***************************************************************************)
(* The external configuration source writes one parameter.                 *)
(***************************************************************************)
UpdateParam ==
  /\ Alive
  /\ nUpdates < MaxUpdates
  /\ \E p \in TunedNames : \E v \in ParamValues(p) \ { params[p] } :
       /\ params' = [ params EXCEPT ![p] = v ]
       /\ paramHist' = IF pc = "idle" THEN << params' >>
                                      ELSE Append(paramHist, params')
  /\ startParams' = IF pc = "idle" THEN params' ELSE startParams
  /\ nUpdates' = nUpdates + 1
  /\ UNCHANGED << detVars, dbgVars, pc, frameVars, armorsPre, used, stageLog,
                  pubVars, tailVars >>

(***************************************************************************)
(* The "debug" parameter callback (lines 78-81), createDebugPublishers     *)
(* (204-214) and destroyDebugPublishers (216-224), statement by statement. *)
(***************************************************************************)
DebugEvent ==
  /\ Alive
  /\ cbpc = "idle"
  /\ nDebugEvents < MaxDebugEvents
  /\ cbP' \in BOOLEAN
  /\ cbpc' = "assign"
  /\ nDebugEvents' = nDebugEvents + 1
  /\ UNCHANGED << debug_, pubs, cbIdx >>
  /\ UNCHANGED << cfgVars, detVars, pc, frameVars, ghostVars, pubVars, tailVars >>

\* line 79
CbAssign ==
  /\ Alive
  /\ cbpc = "assign"
  /\ debug_' = cbP
  /\ cbpc' = "apply"
  /\ cbIdx' = 1
  /\ UNCHANGED << pubs, cbP, nDebugEvents >>
  /\ UNCHANGED << cfgVars, detVars, pc, frameVars, ghostVars, pubVars, tailVars >>

\* line 80 never reaching destroyDebugPublishers
CallbackCreatesAlways(d) == TRUE

\* line 80: which of the two the callback calls
CallbackCreates(d) == d

CbStep(create) ==
  /\ pubs' = [ pubs EXCEPT ![PubOrder[cbIdx]] = create ]
  /\ IF cbIdx = Len(PubOrder)
       THEN cbpc' = "idle" /\ cbIdx' = 1
       ELSE cbpc' = cbpc /\ cbIdx' = cbIdx + 1
  /\ UNCHANGED << debug_, cbP, nDebugEvents >>
  /\ UNCHANGED << cfgVars, detVars, pc, frameVars, ghostVars, pubVars, tailVars >>

CreateDebugPublisher ==
  /\ Alive
  /\ cbpc = "apply"
  /\ CallbackCreates(debug_)
  /\ CbStep(TRUE)

DestroyDebugPublisher ==
  /\ Alive
  /\ cbpc = "apply"
  /\ ~CallbackCreates(debug_)
  /\ CbStep(FALSE)

(***************************************************************************)
(* detectArmors (lines 114-176), statement by statement                    *)
(***************************************************************************)
Step(from, to) == Alive /\ pc = from /\ pc' = to

\* lines 117-119: a frame arrives and detectArmors is entered
StartFrame ==
  /\ Step("idle", "readMinLightness")
  /\ nFrames < MaxFrames
  /\ nFrames' = nFrames + 1
  /\ frame' \in Frames
  /\ binary_img' = {}
  /\ lights' = << >>
  /\ armors' = << >>
  /\ startParams' = params
  /\ paramHist' = << params >>
  /\ stageLog' = << >>
  /\ pubLog' = << >>
  /\ armorsPre' = << >>
  /\ result' = << >>
  /\ used' = UsedOf(detector, threshold)
  /\ UNCHANGED << params, nUpdates, detVars, dbgVars, badPublish, failure, tailVars >>

\* line 122
ReadMinLightness ==
  /\ Step("readMinLightness", "readDetectColor")
  /\ detector' = [ detector EXCEPT !.min_lightness = params["min_lightness"] ]
  /\ stageLog' = Append(stageLog, "config")
  /\ UNCHANGED << cfgVars, threshold, dbgVars, frameVars, armorsPre, used,
                  startParams, pubVars, tailVars >>

\* line 123
ReadDetectColor ==
  /\ Step("readDetectColor", "preprocessImage")
  /\ detector' = [ detector EXCEPT !.detect_color = params["detect_color"] ]
  /\ stageLog' = Append(stageLog, "config")
  /\ UNCHANGED << cfgVars, threshold, dbgVars, frameVars, armorsPre, used,
                  startParams, pubVars, tailVars >>

\* line 125
PreprocessImage ==
  /\ Step("preprocessImage", "findLights")
  /\ binary_img' = preprocessImage(frame.blobs, detector.min_lightness)
  /\ used' = [ used EXCEPT !.min_lightness = detector.min_lightness ]
  /\ stageLog' = Append(stageLog, "preprocessImage")
  /\ UNCHANGED << cfgVars, detVars, dbgVars, frame, nFrames, lights, armors, result,
                  armorsPre, startParams, pubVars, tailVars >>

\* line 126
FindLights ==
  /\ Step("findLights", "matchLights")
  /\ lights' = findLights(frame.blobs, binary_img, detector.detect_color, detector.l)
  /\ detector' = [ detector EXCEPT
                     !.debug_lights = SelectIdx(frame.blobs, binary_img, 1) ]
  /\ used' = [ used EXCEPT !.detect_color = detector.detect_color, !.l = detector.l ]
  /\ stageLog' = Append(stageLog, "findLights")
  /\ UNCHANGED << cfgVars, threshold, dbgVars, frame, nFrames, binary_img, armors,
                  result, armorsPre, startParams, pubVars, tailVars >>

\* line 127
MatchLights ==
  /\ Step("matchLights", "checkArmors")
  /\ armors' = matchLights(lights, detector.a)
  /\ detector' = [ detector EXCEPT !.debug_armors = armors' ]
  /\ used' = [ used EXCEPT !.a = detector.a ]
  /\ stageLog' = Append(stageLog, "matchLights")
  /\ UNCHANGED << cfgVars, threshold, dbgVars, frame, nFrames, binary_img, lights,
                  result, armorsPre, startParams, pubVars, tailVars >>

\* the condition of line 130
HasArmors(a) == a # << >>

\* line 130
CheckArmors ==
  /\ Alive
  /\ pc = "checkArmors"
  /\ IF HasArmors(armors)
       THEN pc' = "extractNumbers" /\ armorsPre' = armorsPre
       ELSE pc' = "checkDebug" /\ armorsPre' = armors
  /\ UNCHANGED << cfgVars, detVars, dbgVars, frameVars, used, startParams,
                  stageLog, pubVars, tailVars >>

\* line 131
ExtractNumbers ==
  /\ Step("extractNumbers", "readThreshold")
  /\ armors' = extractNumbers(armors)
  /\ stageLog' = Append(stageLog, "extractNumbers")
  /\ UNCHANGED << cfgVars, detVars, dbgVars, frame, nFrames, binary_img, lights,
                  result, armorsPre, used, startParams, pubVars, tailVars >>

\* line 132
ReadThreshold ==
  /\ Step("readThreshold", "doClassify")
  /\ threshold' = params["classifier.threshold"]
  /\ stageLog' = Append(stageLog, "config")
  /\ UNCHANGED << cfgVars, detector, dbgVars, frameVars, armorsPre, used,
                  startParams, pubVars, tailVars >>

\* line 133
DoClassify ==
  /\ Step("doClassify", "checkDebug")
  /\ armors' = doClassify(armors, threshold)
  /\ armorsPre' = armors'
  /\ used' = [ used EXCEPT !.threshold = threshold ]
  /\ stageLog' = Append(stageLog, "doClassify")
  /\ UNCHANGED << cfgVars, detVars, dbgVars, frame, nFrames, binary_img, lights,
                  result, startParams, pubVars, tailVars >>

\* line 137
CheckDebug ==
  /\ Alive
  /\ pc = "checkDebug"
  /\ pc' = IF debug_ THEN "pubBinary" ELSE "return"
  /\ UNCHANGED << cfgVars, detVars, dbgVars, frameVars, ghostVars, pubVars, tailVars >>

\* publish() through one of the debug publishers.  Using an rclcpp publisher
\* that does not exist dereferences a null shared_ptr: the process may die or
\* go on.  An invalid image_transport publisher logs and returns.
PublishVia(pub, to) ==
  /\ Alive
  /\ IF pubs[pub]
       THEN /\ pubLog' = Append(pubLog, pub)
            /\ pc' = to
            /\ UNCHANGED << badPublish, failure >>
       ELSE /\ badPublish' = badPublish \cup { pub }
            /\ pubLog' = pubLog
            /\ \/ pc' = to /\ failure' = failure
               \/ pub \in PtrPubs /\ pc' = pc /\ failure' = "null_publisher"
  /\ UNCHANGED << cfgVars, detVars, dbgVars, frameVars, ghostVars, tailVars >>

\* lines 138-145
PubBinary == pc = "pubBinary" /\ PublishVia("/binary_img", "sortDebug")

\* lines 147-152
SortDebug ==
  /\ Step("sortDebug", "pubLights")
  /\ \E dl \in SortsByX(detector.debug_lights) :
       \E da \in SortsByX(detector.debug_armors) :
         detector' = [ detector EXCEPT !.debug_lights = dl, !.debug_armors = da ]
  /\ UNCHANGED << cfgVars, threshold, dbgVars, frameVars, ghostVars, pubVars, tailVars >>

\* line 154
PubLights == pc = "pubLights" /\ PublishVia("/debug/lights", "pubArmors")

\* line 155
PubArmors == pc = "pubArmors" /\ PublishVia("/debug/armors", "checkNumbers")

\* line 157 without its guard
HasNumbersUnguarded(a) == TRUE

\* the condition of line 157
HasNumbers(a) == a # << >>

\* line 157
CheckNumbers ==
  /\ Alive
  /\ pc = "checkNumbers"
  /\ pc' = IF HasNumbers(armors) THEN "numberImgs" ELSE "drawResults"
  /\ UNCHANGED << cfgVars, detVars, dbgVars, frameVars, ghostVars, pubVars, tailVars >>

\* line 162 with width and height exchanged
resizeNumberTransposed(armor) ==
  [ armor EXCEPT !.number_img = [ @ EXCEPT !.w = ResizeH, !.h = ResizeW ] ]

\* cv::resize(armor.number_img, armor.number_img, cv::Size(20, 28)), line 162
resizeNumber(armor) ==
  [ armor EXCEPT !.number_img = [ @ EXCEPT !.w = ResizeW, !.h = ResizeH ] ]

\* lines 159-166
NumberImgs ==
  /\ Step("numberImgs", "pubNumber")
  /\ armors' = [ i \in 1..Len(armors) |-> resizeNumber(armors[i]) ]
  /\ stageLog' = Append(stageLog, "vconcat")
  /\ UNCHANGED << cfgVars, detVars, dbgVars, frame, nFrames, binary_img, lights,
                  result, armorsPre, used, startParams, pubVars, tailVars >>

\* line 168
PubNumber == pc = "pubNumber" /\ PublishVia("/number", "drawResults")

\* line 171
DrawResults ==
  /\ Step("drawResults", "pubFinal")
  /\ stageLog' = Append(stageLog, "drawResults")
  /\ UNCHANGED << cfgVars, detVars, dbgVars, frameVars, armorsPre, used,
                  startParams, pubVars, tailVars >>

\* line 172
PubFinal == pc = "pubFinal" /\ PublishVia("/final_img", "return")

\* line 175
Return ==
  /\ Step("return", "positions")
  /\ result' = armors
  /\ UNCHANGED << cfgVars, detVars, dbgVars, frame, nFrames, binary_img, lights,
                  armors, ghostVars, pubVars, tailVars >>

(***************************************************************************)
(* The image callback after detectArmors returned (the callback is not     *)
(* part of the sources): 3D positions of the returned armors, publication  *)
(* of the armors, publishMarkers.  Whether the callback empties            *)
(* armors_msg_.armors and marker_array_.markers before it fills them for   *)
(* the frame is not known: either may be emptied or kept.                  *)
(***************************************************************************)
ComputePositions ==
  /\ Step("positions", "publishArmors")
  /\ \E clearArmors \in BOOLEAN : \E clearMarkers \in BOOLEAN :
       /\ armors_msg_' = (IF clearArmors THEN << >> ELSE armors_msg_)
                            \o [ i \in 1..Len(result) |-> armorMsg(result[i]) ]
       /\ marker_array_' = IF clearMarkers THEN << >> ELSE marker_array_
  /\ stageLog' = Append(stageLog, "positions")
  /\ UNCHANGED << cfgVars, detVars, dbgVars, frameVars, armorsPre, used,
                  startParams, pubVars, position_marker_, markersOut >>

PublishArmors ==
  /\ Step("publishArmors", "publishMarkers")
  /\ pubLog' = Append(pubLog, "/detector/armors")
  /\ UNCHANGED << cfgVars, detVars, dbgVars, frameVars, ghostVars, badPublish,
                  failure, tailVars >>

\* publishMarkers (lines 226-232); the image callback ends and the locals of
\* the frame are gone.
PublishMarkers ==
  /\ Step("publishMarkers", "idle")
  /\ position_marker_' =
       [ position_marker_ EXCEPT
           !.action = IF armors_msg_ = << >> THEN MarkerDELETE ELSE MarkerADD ]
  /\ marker_array_' = Append(marker_array_, position_marker_')
  /\ markersOut' = marker_array_'
  /\ frame' = Frame(<< >>)
  /\ binary_img' = {}
  /\ lights' = << >>
  /\ armors' = << >>
  /\ result' = << >>
  /\ armorsPre' = << >>
  /\ used' = UsedOf(detector, threshold)
  /\ startParams' = params
  /\ paramHist' = << params >>
  /\ stageLog' = << >>
  /\ pubLog' = << >>
  /\ badPublish' = {}
  /\ UNCHANGED << params, nUpdates, detVars, dbgVars, nFrames, failure, armors_msg_ >>

\* The parameter store is written only between two frames.
UpdateParamBetweenFrames == pc = "idle" /\ UpdateParam

(***************************************************************************)
(* Spec: the frame pipeline and the "debug" parameter callback, interleaved *)
(* statement by statement.                                                 *)
(***************************************************************************)
Next ==
  \/ DebugEvent
  \/ CbAssign
  \/ CreateDebugPublisher
  \/ DestroyDebugPublisher
  \/ StartFrame
  \/ ReadMinLightness
  \/ ReadDetectColor
  \/ PreprocessImage
  \/ FindLights
  \/ MatchLights
  \/ CheckArmors
  \/ ExtractNumbers
  \/ ReadThreshold
  \/ DoClassify
  \/ CheckDebug
  \/ PubBinary
  \/ SortDebug
  \/ PubLights
  \/ PubArmors
  \/ CheckNumbers
  \/ NumberImgs
  \/ PubNumber
  \/ DrawResults
  \/ PubFinal
  \/ Return
  \/ ComputePositions
  \/ PublishArmors
  \/ PublishMarkers

Spec == Init /\ [][Next]_vars

(***************************************************************************)
(* SpecCfg: the frame pipeline and the writes of the external              *)
(* configuration source, interleaved statement by statement.               *)
(***************************************************************************)
NextCfg ==
  \/ UpdateParam
  \/ StartFrame
  \/ ReadMinLightness
  \/ ReadDetectColor
  \/ PreprocessImage
  \/ FindLights
  \/ MatchLights
  \/ CheckArmors
  \/ ExtractNumbers
  \/ ReadThreshold
  \/ DoClassify
  \/ CheckDebug
  \/ PubBinary
  \/ SortDebug
  \/ PubLights
  \/ PubArmors
  \/ CheckNumbers
  \/ NumberImgs
  \/ PubNumber
  \/ DrawResults
  \/ PubFinal
  \/ Return
  \/ ComputePositions
  \/ PublishArmors
  \/ PublishMarkers

SpecCfg == Init /\ [][NextCfg]_vars

(***************************************************************************)
(* SpecSeq: one thread; parameters are written between two frames only.    *)
(***************************************************************************)
NextSeq ==
  \/ UpdateParamBetweenFrames
  \/ StartFrame
  \/ ReadMinLightness
  \/ ReadDetectColor
  \/ PreprocessImage
  \/ FindLights
  \/ MatchLights
  \/ CheckArmors
  \/ ExtractNumbers
  \/ ReadThreshold
  \/ DoClassify
  \/ CheckDebug
  \/ PubBinary
  \/ SortDebug
  \/ PubLights
  \/ PubArmors
  \/ CheckNumbers
  \/ NumberImgs
  \/ PubNumber
  \/ DrawResults
  \/ PubFinal
  \/ Return
  \/ ComputePositions
  \/ PublishArmors
  \/ PublishMarkers

SpecSeq == Init /\ [][NextSeq]_vars

(***************************************************************************)
(* Properties                                                              *)
(***************************************************************************)
Stages == { stageLog[i] : i \in 1..Len(stageLog) }

\* C1: within one call of detectArmors the min_lightness and detect_color
\* the detector stages used and the threshold doClassify used all come from
\* one value the parameter store held during the call.
C1_CoherentSnapshot ==
  "doClassify" \in Stages =>
    \E i \in 1..Len(paramHist) :
      /\ paramHist[i]["min_lightness"] = used.min_lightness
      /\ paramHist[i]["detect_color"] = used.detect_color
      /\ paramHist[i]["classifier.threshold"] = used.threshold

\* C2: every threshold and the target colour a stage of the frame uses
\* equals the value the parameter store held when detectArmors started.
C2_ConfigReadAtFrameStart ==
  /\ "preprocessImage" \in Stages =>
       used.min_lightness = startParams["min_lightness"]
  /\ "findLights" \in Stages =>
       /\ used.detect_color = startParams["detect_color"]
       /\ used.l = LightParamsOf(startParams)
  /\ "matchLights" \in Stages => used.a = ArmorParamsOf(startParams)
  /\ "doClassify" \in Stages =>
       used.threshold = startParams["classifier.threshold"]

ZeroArmors == "matchLights" \in Stages /\ matchLights(lights, detector.a) = << >>

\* C4: a frame with zero lights or zero armors never enters extractNumbers,
\* doClassify or the concatenation of numeral images, and returns the empty
\* list; the numeral images are never concatenated for an empty armor list.
C4_EmptyIsOrdinary ==
  /\ ZeroArmors =>
       /\ armors = << >>
       /\ Stages \cap { "extractNumbers", "doClassify", "vconcat" } = {}
       /\ pc \notin { "extractNumbers", "readThreshold", "doClassify",
                      "numberImgs", "pubNumber" }
       /\ pc \in { "positions", "publishArmors", "publishMarkers" } => result = << >>
  /\ pc = "numberImgs" => armors # << >>
  /\ "vconcat" \in Stages => armors # << >>

\* a zero-armor frame went through the debug branch and returned
C4_Witness ==
  /\ pc = "positions"
  /\ ZeroArmors
  /\ "drawResults" \in Stages
  /\ result = << >>

\* C5: nothing of a frame is published before classification and the 3D
\* positions of that frame have been computed.
C5_NoPartialEmission ==
  pubLog # << >> =>
    /\ "positions" \in Stages
    /\ "extractNumbers" \in Stages => "doClassify" \in Stages

StageRank(st) ==
  CASE st = "config" -> 0
    [] st = "preprocessImage" -> 1
    [] st = "findLights" -> 2
    [] st = "matchLights" -> 3
    [] st = "extractNumbers" -> 4
    [] st = "doClassify" -> 5
    [] OTHER -> 6

\* C8: the stages of a frame run in the order configuration read,
\* preprocessImage, findLights, matchLights, extractNumbers, doClassify, none
\* of them twice, the last two only for a non-empty armor list.
C8_StageOrder ==
  /\ \A i \in 1..(Len(stageLog) - 1) :
       \/ StageRank(stageLog[i]) < StageRank(stageLog[i + 1])
       \/ stageLog[i] = "config" /\ stageLog[i + 1] = "config"
       \/ StageRank(stageLog[i]) = 6
  /\ "extractNumbers" \in Stages => matchLights(lights, detector.a) # << >>

\* C9: the debug branch never publishes through a debug publisher that does
\* not exist.
C9_NoPublishWithoutPublisher == badPublish = {}

\* C10: whenever no "debug" callback is running, each of the five debug
\* publishers exists if and only if debug_ is true.
C10_PublishersIffDebug ==
  cbpc = "idle" => \A x \in PubNames : pubs[x] = debug_

\* two callbacks have completed, the last one with the value false
C10_Witness ==
  /\ cbpc = "idle"
  /\ nDebugEvents = 2
  /\ cbP = FALSE
  /\ ~debug_
  /\ \A x \in PubNames : ~pubs[x]

====
